---------------------------- MODULE Spec2Model ----------------------------
(***************************************************************************)
(* RearrangementIndexer.py: per-ALG splitting parameter, combining         *)
(* parameter and rearrangement index of every coordinates file of a        *)
(* directory, collected in three wide tables (rows = ALG, columns = file). *)
(*                                                                         *)
(* A gene table is the DataFrame read_csv returns, reduced to the two      *)
(* columns the script uses (Chromosome, ALG).  A ratio of two counts is    *)
(* kept as the exact fraction <<numerator, denominator>>.                  *)
(***************************************************************************)
EXTENDS Integers, Sequences, FiniteSets, TLC

(***************************************************************************)
(* Bounds of the model.                                                    *)
(***************************************************************************)
\* longest gene table of the single-genome specification
MaxGenes == 3
\* longest gene table of a file of the batch specification
MaxBatchGenes == 2
\* largest number of positional command-line arguments
MaxArgs == 2

(***************************************************************************)
(* Sort orders.  groupby sorts its keys, so the contingency table lists    *)
(* chromosomes and ALGs in increasing order; the sequences below give that *)
(* order for the identifiers the model uses.                               *)
(***************************************************************************)
ChromOrder == <<"chr1", "chr2", "chr3">>

LabelOrder ==
  <<"A1", "A1a", "A1b", "B3", "E", "Ea", "Eb", "Q", "Qa", "Qb", "Qc", "Qd", "a1a">>

Range(s) == {s[k] : k \in DOMAIN s}

\* the members of S in the order of the sequence order
Sorted(order, S) ==
  LET Keep(x) == x \in S IN SelectSeq(order, Keep)

RECURSIVE SeqSum(_)
SeqSum(s) == IF s = <<>> THEN 0 ELSE Head(s) + SeqSum(Tail(s))

(***************************************************************************)
(* Exact fractions.                                                        *)
(***************************************************************************)
Div(a, b) == <<a, b>>

Mul(x, y) == <<x[1] * y[1], x[2] * y[2]>>

\* 1 - x
OneMinus(x) == <<x[2] - x[1], x[2]>>

\* a missing cell of a table (pandas NaN): no count ratio has denominator 0
NaN == <<0, 0>>

(***************************************************************************)
(* process_tsv_file                                                        *)
(***************************************************************************)
\* the dictionary handed to Series.replace
ReplaceDict ==
  [A1a |-> "A1", A1b |-> "A1", Ea |-> "E", Eb |-> "E",
   Qa |-> "Q", Qb |-> "Q", Qc |-> "Q", Qd |-> "Q"]

\* faulty variant of replace: the dictionary lacks the key Qd
ReplaceNoQd(label) ==
  IF label \in (DOMAIN ReplaceDict) \ {"Qd"} THEN ReplaceDict[label] ELSE label

\* Series.replace on one value: exact match on a key, else the value itself
replace(label) ==
  IF label \in DOMAIN ReplaceDict THEN ReplaceDict[label] ELSE label

\* df['ALG'] = df['ALG'].replace({...})
replace_ALG(df) == [k \in DOMAIN df |-> [df[k] EXCEPT !.ALG = replace(@)]]

\* df.groupby(["Chromosome", "ALG"]).size().unstack(fill_value=0)
groupby_size_unstack(df) ==
  LET chroms == {df[k].Chromosome : k \in DOMAIN df}
      algs   == {df[k].ALG : k \in DOMAIN df}
  IN  [index   |-> Sorted(ChromOrder, chroms),
       columns |-> Sorted(LabelOrder, algs),
       data    |-> [p \in chroms \X algs |->
                      Cardinality({k \in DOMAIN df :
                                     /\ df[k].Chromosome = p[1]
                                     /\ df[k].ALG = p[2]})]]

\* faulty variant of sum_axis1: the sum of the whole table for every row
sum_all(counts) ==
  [c \in Range(counts.index) |->
     SeqSum([k \in DOMAIN counts.columns |->
               SeqSum([j \in DOMAIN counts.index |->
                         counts.data[<<counts.index[j], counts.columns[k]>>]])])]

\* chrom_alg_counts.sum(axis=1)
sum_axis1(counts) ==
  [c \in Range(counts.index) |->
     SeqSum([k \in DOMAIN counts.columns |-> counts.data[<<c, counts.columns[k]>>]])]

\* chrom_alg_counts[alg].sum()
column_sum(counts, alg) ==
  SeqSum([k \in DOMAIN counts.index |-> counts.data[<<counts.index[k], alg>>]])

\* faulty variant of idxmax: the first occurrence of the minimum
idxmin(counts) ==
  [a \in Range(counts.columns) |->
     LET col(k) == counts.data[<<counts.index[k], a>>]
         pos == CHOOSE k \in DOMAIN counts.index :
                  /\ \A j \in DOMAIN counts.index : col(j) >= col(k)
                  /\ \A j \in DOMAIN counts.index : j < k => col(j) > col(k)
     IN  counts.index[pos]]

\* faulty variant of idxmax: the last occurrence of the maximum
idxmax_last(counts) ==
  [a \in Range(counts.columns) |->
     LET col(k) == counts.data[<<counts.index[k], a>>]
         pos == CHOOSE k \in DOMAIN counts.index :
                  /\ \A j \in DOMAIN counts.index : col(j) <= col(k)
                  /\ \A j \in DOMAIN counts.index : j > k => col(j) < col(k)
     IN  counts.index[pos]]

\* chrom_alg_counts.idxmax(axis=0): per column, the row label of the first
\* occurrence of the maximum
idxmax(counts) ==
  [a \in Range(counts.columns) |->
     LET col(k) == counts.data[<<counts.index[k], a>>]
         pos == CHOOSE k \in DOMAIN counts.index :
                  /\ \A j \in DOMAIN counts.index : col(j) <= col(k)
                  /\ \A j \in DOMAIN counts.index : j < k => col(j) < col(k)
     IN  counts.index[pos]]

\* proportion_on_chrom of one ALG
proportion_on_chrom(counts, most_genes_chrom, alg) ==
  Div(counts.data[<<most_genes_chrom, alg>>], column_sum(counts, alg))

\* total_proportion_on_chrom of one ALG
total_proportion_on_chrom(counts, totals, most_genes_chrom, alg) ==
  Div(counts.data[<<most_genes_chrom, alg>>], totals[most_genes_chrom])

\* faulty variant of rearrangement_index: the product alone
rearrangement_index_product(p, t) == Mul(p, t)

\* rearrangement_index of one ALG
rearrangement_index(p, t) == OneMinus(Mul(p, t))

\* pd.Series(dict, name=...): the keys in insertion order
Series(name, keys, values) == [name |-> name, index |-> keys, data |-> values]

\* the three series process_tsv_file returns for the table read from a file
process_tsv_file(file_name, raw) ==
  LET df == replace_ALG(raw)
      chrom_alg_counts   == groupby_size_unstack(df)
      chrom_total_counts == sum_axis1(chrom_alg_counts)
      all_algs           == chrom_alg_counts.columns
      chrom_most_genes   == idxmax(chrom_alg_counts)
      p == [alg \in Range(all_algs) |->
              proportion_on_chrom(chrom_alg_counts, chrom_most_genes[alg], alg)]
      t == [alg \in Range(all_algs) |->
              total_proportion_on_chrom(chrom_alg_counts, chrom_total_counts,
                                        chrom_most_genes[alg], alg)]
      r == [alg \in Range(all_algs) |-> rearrangement_index(p[alg], t[alg])]
  IN  [rearrangement    |-> Series(file_name, all_algs, r),
       proportion       |-> Series(file_name, all_algs, p),
       total_proportion |-> Series(file_name, all_algs, t)]


(***************************************************************************)
(* main: the batch tables                                                  *)
(***************************************************************************)
\* pd.DataFrame()
EmptyDataFrame == [index |-> <<>>, columns |-> <<>>, data |-> <<>>]

\* the value of a local of main before its first assignment
NoSeries == [name |-> "", index |-> <<>>, data |-> <<>>]

\* faulty variant of concat_axis1: a cell with no value is 0
concat_zero(frame, series) ==
  LET New(a)  == a \notin Range(frame.index)
      index   == frame.index \o SelectSeq(series.index, New)
      columns == Append(frame.columns, series.name)
  IN  [index   |-> index,
       columns |-> columns,
       data    |-> [c \in Range(index) \X Range(columns) |->
                      IF c[2] = series.name
                      THEN IF c[1] \in Range(series.index)
                           THEN series.data[c[1]] ELSE Div(0, 1)
                      ELSE IF c[1] \in Range(frame.index)
                           THEN frame.data[c] ELSE Div(0, 1)]]

\* faulty variant of concat_axis1: the rows of the first column are kept
concat_left(frame, series) ==
  LET index   == IF frame.columns = <<>> THEN series.index ELSE frame.index
      columns == Append(frame.columns, series.name)
  IN  [index   |-> index,
       columns |-> columns,
       data    |-> [c \in Range(index) \X Range(columns) |->
                      IF c[2] = series.name
                      THEN IF c[1] \in Range(series.index)
                           THEN series.data[c[1]] ELSE NaN
                      ELSE frame.data[c]]]

\* faulty variant of concat_axis1: the rows are the common labels
concat_inner(frame, series) ==
  LET index   == IF frame.columns = <<>> THEN series.index
                 ELSE LET Both(a) == a \in Range(series.index)
                      IN  SelectSeq(frame.index, Both)
      columns == Append(frame.columns, series.name)
  IN  [index   |-> index,
       columns |-> columns,
       data    |-> [c \in Range(index) \X Range(columns) |->
                      IF c[2] = series.name THEN series.data[c[1]]
                      ELSE frame.data[c]]]

\* pd.concat([frame, series], axis=1): the series becomes a new column, the
\* rows are the union of both indexes, a cell with no value is NaN
concat_axis1(frame, series) ==
  LET New(a)  == a \notin Range(frame.index)
      index   == frame.index \o SelectSeq(series.index, New)
      columns == Append(frame.columns, series.name)
  IN  [index   |-> index,
       columns |-> columns,
       data    |-> [c \in Range(index) \X Range(columns) |->
                      IF c[2] = series.name
                      THEN IF c[1] \in Range(series.index)
                           THEN series.data[c[1]] ELSE NaN
                      ELSE IF c[1] \in Range(frame.index)
                           THEN frame.data[c] ELSE NaN]]

(***************************************************************************)
(* The directory and the command line.                                     *)
(***************************************************************************)
\* the entries a listing of the input directory may name, and their last
\* four characters
Extension ==
  ("a.tsv" :> ".tsv") @@ ("b.tsv" :> ".tsv") @@ ("notes.txt" :> ".txt")

OtherEntries == {"notes.txt"}

\* file.endswith(".tsv")
endswith_tsv(file) == Extension[file] = ".tsv"

\* the sequences without repetition over the members of S
Listings(S) ==
  UNION {{l \in [1..n -> S] : \A j, k \in 1..n : j # k => l[j] # l[k]} :
           n \in 0..Cardinality(S)}

GeneRecords(chroms, labels) == [Chromosome : chroms, ALG : labels]

\* the nonempty tables of at most n rows
Tables(records, n) == UNION {[1..k -> records] : k \in 1..n}

\* what read_csv finds: a table, an empty file or a file it cannot open
NoData     == [readable |-> TRUE, rows |-> <<>>]
Unreadable == [readable |-> FALSE, rows |-> <<>>]

Files(tables) == {[readable |-> TRUE, rows |-> t] : t \in tables} \cup {NoData, Unreadable}

\* the genome of the end-to-end example
ExampleGenome ==
  LET g(c, a) == [Chromosome |-> c, ALG |-> a]
  IN  <<g("chr1", "A1a"), g("chr1", "A1a"), g("chr1", "A1a"),
        g("chr1", "A1b"), g("chr2", "A1a"), g("chr1", "E")>>

\* longest table of the single-genome specification that mixes all labels
MaxLabelGenes == 2

GenomeTables ==
  Tables(GeneRecords(Range(ChromOrder), {"A1a", "A1b", "E"}), MaxGenes)
    \cup Tables(GeneRecords({"chr1"}, Range(LabelOrder)), MaxLabelGenes)
    \cup {ExampleGenome}

\* the position of x in the sequence order
Pos(order, x) == CHOOSE k \in DOMAIN order : order[k] = x

\* the rows of t are listed by chromosome, then by label
RowsInOrder(t) ==
  \A k \in 1..(Len(t) - 1) :
     \/ Pos(ChromOrder, t[k].Chromosome) < Pos(ChromOrder, t[k + 1].Chromosome)
     \/ /\ t[k].Chromosome = t[k + 1].Chromosome
        /\ Pos(LabelOrder, t[k].ALG) <= Pos(LabelOrder, t[k + 1].ALG)

\* the genomes of the batch specification: one table per multiset of rows
BatchTables ==
  {t \in Tables(GeneRecords({"chr1", "chr2"}, {"A1a", "E"}), MaxBatchGenes) :
     RowsInOrder(t)}

OutputNames ==
  {"Rearrangement_index.tsv", "Splitting_parameter.tsv", "Combining_parameter.tsv"}

(***************************************************************************)
(* State.                                                                  *)
(***************************************************************************)
VARIABLES
  argc,          \* len(sys.argv) - 1
  fs,            \* the .tsv files the input directory may hold, by name
  pc,            \* "start", "loop", "write_sp", "write_cp" or "exit"
  tsv_files,     \* main: the list of input files
  i,             \* main: position of the for loop in tsv_files
  rearrangement_series, proportion_series, total_proportion_series,
  rearrangement_df, proportion_on_chrom_df, total_proportion_on_chrom_df,
  stdout,        \* the lines printed, by kind
  exitStatus,    \* -1 while the process runs
  written,       \* the output files this invocation has written
  disk,          \* the output files in the working directory
  phase,         \* "first" or "second" invocation on the same directory
  prev           \* what the first invocation left: status, files, disk

vars ==
  <<argc, fs, pc, tsv_files, i,
    rearrangement_series, proportion_series, total_proportion_series,
    rearrangement_df, proportion_on_chrom_df, total_proportion_on_chrom_df,
    stdout, exitStatus, written, disk, phase, prev>>

locals ==
  <<tsv_files, i,
    rearrangement_series, proportion_series, total_proportion_series,
    rearrangement_df, proportion_on_chrom_df, total_proportion_on_chrom_df>>

\* a fresh process, after the first citation message
Fresh ==
  /\ pc = "start"
  /\ tsv_files = <<>>
  /\ i = 1
  /\ rearrangement_series = NoSeries
  /\ proportion_series = NoSeries
  /\ total_proportion_series = NoSeries
  /\ rearrangement_df = EmptyDataFrame
  /\ proportion_on_chrom_df = EmptyDataFrame
  /\ total_proportion_on_chrom_df = EmptyDataFrame
  /\ stdout = <<"citation">>
  /\ exitStatus = -1
  /\ written = {}

InitRest ==
  /\ argc \in 0..MaxArgs
  /\ Fresh
  /\ disk = [n \in {} |-> EmptyDataFrame]
  /\ phase = "first"
  /\ prev = [status |-> -1, files |-> <<>>, disk |-> disk]

\* a directory of up to two small genomes
Init ==
  /\ fs \in [{"a.tsv", "b.tsv"} -> Files(BatchTables)]
  /\ InitRest

\* a directory of at most one genome
InitGenome ==
  /\ fs \in [{"a.tsv"} -> Files(GenomeTables)]
  /\ InitRest

(***************************************************************************)
(* Actions.                                                                *)
(***************************************************************************)
\* faulty variant of UsageOK: extra arguments are accepted
UsageOKAtLeastOne(n) == n >= 1

\* len(sys.argv) != 2 is false
UsageOK(n) == n = 1

\* wrong argument count: usage line, sys.exit(1)
UsageError ==
  /\ pc = "start"
  /\ ~UsageOK(argc)
  /\ stdout' = Append(stdout, "usage")
  /\ exitStatus' = 1
  /\ pc' = "exit"
  /\ UNCHANGED <<argc, fs, locals, written, disk, phase, prev>>

\* main: os.listdir raises
ListDirFails ==
  /\ pc = "start"
  /\ UsageOK(argc)
  /\ exitStatus' = 1
  /\ pc' = "exit"
  /\ UNCHANGED <<argc, fs, locals, stdout, written, disk, phase, prev>>

\* main: the .tsv entries of the listing, in listing order; the three empty
\* tables
ListDir ==
  /\ pc = "start"
  /\ UsageOK(argc)
  /\ \E listing \in Listings(DOMAIN fs \cup OtherEntries) :
       tsv_files' = SelectSeq(listing, endswith_tsv)
  /\ rearrangement_df' = EmptyDataFrame
  /\ proportion_on_chrom_df' = EmptyDataFrame
  /\ total_proportion_on_chrom_df' = EmptyDataFrame
  /\ i' = 1
  /\ pc' = "loop"
  /\ UNCHANGED <<argc, fs, rearrangement_series, proportion_series,
                 total_proportion_series, stdout, exitStatus, written, disk,
                 phase, prev>>

\* faulty variant of LoopDone: the loop ends after one file
LoopDoneEarly(n, files) == n > Len(files) \/ n > 1

\* the for loop over tsv_files is exhausted
LoopDone(n, files) == n > Len(files)

\* read_csv or the renaming of the six columns raises
ReadFails(file) == ~file.readable \/ file.rows = <<>>

\* one iteration of the loop whose process_tsv_file raises
ProcessFileFails ==
  /\ pc = "loop"
  /\ ~LoopDone(i, tsv_files)
  /\ ReadFails(fs[tsv_files[i]])
  /\ stdout' = Append(stdout, "processing")
  /\ exitStatus' = 1
  /\ pc' = "exit"
  /\ UNCHANGED <<argc, fs, locals, written, disk, phase, prev>>

\* one iteration of the loop
ProcessFile ==
  /\ pc = "loop"
  /\ ~LoopDone(i, tsv_files)
  /\ ~ReadFails(fs[tsv_files[i]])
  /\ LET ret == process_tsv_file(tsv_files[i], fs[tsv_files[i]].rows)
     IN  /\ rearrangement_series' = ret.rearrangement
         /\ proportion_series' = ret.proportion
         /\ total_proportion_series' = ret.total_proportion
         /\ rearrangement_df' = concat_axis1(rearrangement_df, ret.rearrangement)
         /\ proportion_on_chrom_df' =
              concat_axis1(proportion_on_chrom_df, ret.proportion)
         /\ total_proportion_on_chrom_df' =
              concat_axis1(total_proportion_on_chrom_df, ret.total_proportion)
  /\ stdout' = Append(stdout, "processing")
  /\ i' = i + 1
  /\ UNCHANGED <<argc, fs, pc, tsv_files, exitStatus, written, disk, phase, prev>>

to_csv(name, frame) ==
  /\ disk' = (name :> frame) @@ disk
  /\ written' = written \cup {name}
  /\ stdout' = Append(stdout, "saved")

\* rearrangement_df.to_csv("Rearrangement_index.tsv")
WriteRearrangement ==
  /\ pc = "loop"
  /\ LoopDone(i, tsv_files)
  /\ to_csv("Rearrangement_index.tsv", rearrangement_df)
  /\ pc' = "write_sp"
  /\ UNCHANGED <<argc, fs, locals, exitStatus, phase, prev>>

\* proportion_on_chrom_df.to_csv("Splitting_parameter.tsv")
WriteSplitting ==
  /\ pc = "write_sp"
  /\ to_csv("Splitting_parameter.tsv", proportion_on_chrom_df)
  /\ pc' = "write_cp"
  /\ UNCHANGED <<argc, fs, locals, exitStatus, phase, prev>>

\* total_proportion_on_chrom_df.to_csv("Combining_parameter.tsv"), the
\* return of main, the closing citation message
WriteCombining ==
  /\ pc = "write_cp"
  /\ disk' = ("Combining_parameter.tsv" :> total_proportion_on_chrom_df) @@ disk
  /\ written' = written \cup {"Combining_parameter.tsv"}
  /\ stdout' = stdout \o <<"saved", "citation">>
  /\ exitStatus' = 0
  /\ pc' = "exit"
  /\ UNCHANGED <<argc, fs, locals, phase, prev>>

\* after a run that wrote its tables, the same command is run once more
Reinvoke ==
  /\ pc = "exit"
  /\ exitStatus = 0
  /\ phase = "first"
  /\ phase' = "second"
  /\ prev' = [status |-> exitStatus, files |-> tsv_files, disk |-> disk]
  /\ pc' = "start"
  /\ tsv_files' = <<>>
  /\ i' = 1
  /\ rearrangement_series' = NoSeries
  /\ proportion_series' = NoSeries
  /\ total_proportion_series' = NoSeries
  /\ rearrangement_df' = EmptyDataFrame
  /\ proportion_on_chrom_df' = EmptyDataFrame
  /\ total_proportion_on_chrom_df' = EmptyDataFrame
  /\ stdout' = <<"citation">>
  /\ exitStatus' = -1
  /\ written' = {}
  /\ UNCHANGED <<argc, fs, disk>>

Next ==
  \/ UsageError
  \/ ListDirFails
  \/ ListDir
  \/ ProcessFileFails
  \/ ProcessFile
  \/ WriteRearrangement
  \/ WriteSplitting
  \/ WriteCombining
  \/ Reinvoke

Spec == Init /\ [][Next]_vars

SpecGenome == InitGenome /\ [][Next]_vars


(***************************************************************************)
(* The terms of the properties, stated on the gene table of a file.        *)
(***************************************************************************)
SubLabels == {"A1a", "A1b", "Ea", "Eb", "Qa", "Qb", "Qc", "Qd"}

\* the canonical ALG of a label
Canon(label) ==
  CASE label \in {"A1a", "A1b"} -> "A1"
    [] label \in {"Ea", "Eb"} -> "E"
    [] label \in {"Qa", "Qb", "Qc", "Qd"} -> "Q"
    [] OTHER -> label

\* the canonical ALGs of a gene table
Algs(rows) == {Canon(rows[k].ALG) : k \in DOMAIN rows}

Chroms(rows) == {rows[k].Chromosome : k \in DOMAIN rows}

\* ContingencyTable[c, a]
GeneCount(rows, c, a) ==
  Cardinality({k \in DOMAIN rows : rows[k].Chromosome = c /\ Canon(rows[k].ALG) = a})

AlgTotal(rows, a) == Cardinality({k \in DOMAIN rows : Canon(rows[k].ALG) = a})

ChromTotal(rows, c) == Cardinality({k \in DOMAIN rows : rows[k].Chromosome = c})

\* c holds the largest count of a
IsMax(rows, c, a) ==
  \A d \in Chroms(rows) : GeneCount(rows, d, a) <= GeneCount(rows, c, a)

\* the first chromosome, in the order of the table, that holds the largest
\* count of a
FirstMax(rows, a) ==
  LET k == CHOOSE j \in DOMAIN ChromOrder :
             /\ ChromOrder[j] \in Chroms(rows)
             /\ IsMax(rows, ChromOrder[j], a)
             /\ \A h \in 1..(j - 1) :
                  ChromOrder[h] \in Chroms(rows) => ~IsMax(rows, ChromOrder[h], a)
  IN  ChromOrder[k]

\* the fraction x is the ratio n / d
IsRatio(x, n, d) == x[2] > 0 /\ d > 0 /\ x[1] * d = n * x[2]

\* a file has been processed: the series hold what process_tsv_file returned
Returned == rearrangement_series # NoSeries

\* the gene table of the file processed last
LastRows == fs[rearrangement_series.name].rows

SCHR(a) == proportion_series.data[a]
CCHR(a) == total_proportion_series.data[a]
RALG(a) == rearrangement_series.data[a]

HasValues(a) ==
  /\ a \in Range(rearrangement_series.index)
  /\ a \in Range(proportion_series.index)
  /\ a \in Range(total_proportion_series.index)

(***************************************************************************)
(* Properties of process_tsv_file (specification SpecGenome).              *)
(***************************************************************************)
\* C1: for every ALG with algTotal > 0 in the genome, the returned values
\* satisfy 0 <= SCHR <= 1, 0 <= CCHR <= 1, 0 <= RALG <= 1 and
\* RALG = 1 - SCHR * CCHR as exact fractions.
C1_MetricsInUnitInterval ==
  Returned =>
    \A a \in Range(LabelOrder) :
       AlgTotal(LastRows, a) > 0 =>
         /\ HasValues(a)
         /\ SCHR(a)[2] > 0 /\ 0 <= SCHR(a)[1] /\ SCHR(a)[1] <= SCHR(a)[2]
         /\ CCHR(a)[2] > 0 /\ 0 <= CCHR(a)[1] /\ CCHR(a)[1] <= CCHR(a)[2]
         /\ RALG(a)[2] > 0 /\ 0 <= RALG(a)[1] /\ RALG(a)[1] <= RALG(a)[2]
         /\ RALG(a)[1] * (SCHR(a)[2] * CCHR(a)[2])
              = RALG(a)[2] * (SCHR(a)[2] * CCHR(a)[2] - SCHR(a)[1] * CCHR(a)[1])

\* an ALG whose three values lie strictly between 0 and 1
C1_Witness ==
  /\ Returned
  /\ \E a \in Range(rearrangement_series.index) :
       /\ 0 < SCHR(a)[1] /\ SCHR(a)[1] < SCHR(a)[2]
       /\ 0 < CCHR(a)[1] /\ CCHR(a)[1] < CCHR(a)[2]
       /\ 0 < RALG(a)[1] /\ RALG(a)[1] < RALG(a)[2]

\* C2: SCHR of every ALG observed in the genome is the largest per-chromosome
\* count of the ALG divided by the ALG's genome-wide count, whichever of the
\* chromosomes holding that largest count is taken as dominant.
C2_SplittingParameter ==
  Returned =>
    \A a \in Algs(LastRows) :
       /\ a \in Range(proportion_series.index)
       /\ \A c \in Chroms(LastRows) :
            IsMax(LastRows, c, a) =>
              IsRatio(SCHR(a), GeneCount(LastRows, c, a), AlgTotal(LastRows, a))

\* an ALG whose largest count is held by two chromosomes
C2_Witness ==
  /\ Returned
  /\ \E a \in Algs(LastRows) : \E c, d \in Chroms(LastRows) :
       c # d /\ IsMax(LastRows, c, a) /\ IsMax(LastRows, d, a)

\* C3: CCHR of every ALG observed in the genome is the ALG's count on its
\* dominant chromosome divided by the number of genes of all ALGs on that
\* chromosome, the dominant chromosome being the first chromosome of the
\* table (sorted) order among those holding the ALG's largest count; on the
\* genome of the end-to-end example SCHR(A1) = CCHR(A1) = 4/5 and
\* RALG(A1) = 9/25.
C3_CombiningParameter ==
  Returned =>
    /\ \A a \in Algs(LastRows) :
         /\ a \in Range(total_proportion_series.index)
         /\ IsRatio(CCHR(a), GeneCount(LastRows, FirstMax(LastRows, a), a),
                    ChromTotal(LastRows, FirstMax(LastRows, a)))
    /\ LastRows = ExampleGenome =>
         /\ IsRatio(SCHR("A1"), 4, 5)
         /\ IsRatio(CCHR("A1"), 4, 5)
         /\ IsRatio(RALG("A1"), 9, 25)

\* two chromosomes hold the largest count of an ALG and carry different
\* numbers of genes, so the choice among them decides CCHR
C3_Witness ==
  /\ Returned
  /\ \E a \in Algs(LastRows) : \E c, d \in Chroms(LastRows) :
       /\ IsMax(LastRows, c, a) /\ IsMax(LastRows, d, a)
       /\ ChromTotal(LastRows, c) # ChromTotal(LastRows, d)

\* C4: normalization maps A1a, A1b to A1, Ea, Eb to E, Qa..Qd to Q and
\* leaves every other label as it is; normalizing a normalized label changes
\* nothing; it precedes the counting, so the returned series have one entry per
\* canonical ALG of the file, none for a sub-label, and the genes of all
\* sub-labels of an ALG are counted together.
C4_Normalization ==
  Returned =>
    /\ \A k \in DOMAIN LastRows :
         /\ replace(LastRows[k].ALG) = Canon(LastRows[k].ALG)
         /\ replace(replace(LastRows[k].ALG)) = replace(LastRows[k].ALG)
    /\ Range(proportion_series.index) = Algs(LastRows)
    /\ Range(proportion_series.index) \cap SubLabels = {}
    /\ \A a \in Range(proportion_series.index) :
         /\ replace(a) = a
         /\ SCHR(a)[2] = AlgTotal(LastRows, a)

\* a file with two different sub-labels of one ALG, returned as one entry
C4_Witness ==
  /\ Returned
  /\ \E j, k \in DOMAIN LastRows :
       /\ LastRows[j].ALG # LastRows[k].ALG
       /\ LastRows[j].ALG \in SubLabels
       /\ LastRows[k].ALG \in SubLabels
       /\ Canon(LastRows[j].ALG) = Canon(LastRows[k].ALG)
  /\ Len(proportion_series.index) = 1

\* a lies on exactly one chromosome, which carries no other ALG
Conserved(rows, a) ==
  \E c \in Chroms(rows) :
     /\ GeneCount(rows, c, a) = AlgTotal(rows, a)
     /\ GeneCount(rows, c, a) = ChromTotal(rows, c)
     /\ AlgTotal(rows, a) > 0

\* C7: an ALG whose genes all lie on one chromosome that carries no gene of
\* another ALG has RALG = 0, SCHR = 1 and CCHR = 1.
C7_ConservedAlg ==
  Returned =>
    \A a \in Range(LabelOrder) :
       Conserved(LastRows, a) =>
         /\ HasValues(a)
         /\ IsRatio(RALG(a), 0, 1)
         /\ IsRatio(SCHR(a), 1, 1)
         /\ IsRatio(CCHR(a), 1, 1)

\* a conserved ALG of several genes in a genome that holds another ALG
C7_Witness ==
  /\ Returned
  /\ \E a \in Algs(LastRows) :
       /\ Conserved(LastRows, a)
       /\ AlgTotal(LastRows, a) > 1
       /\ Algs(LastRows) # {a}

(***************************************************************************)
(* Properties of main and of the command line (specification Spec).        *)
(***************************************************************************)
\* the files main has processed so far
Processed == SubSeq(tsv_files, 1, i - 1)

Metrics == {"rearrangement", "proportion", "total_proportion"}

\* the batch table of a metric, and the output file it is saved to
Frame(m) ==
  CASE m = "rearrangement" -> rearrangement_df
    [] m = "proportion" -> proportion_on_chrom_df
    [] m = "total_proportion" -> total_proportion_on_chrom_df

OutputOf(m) ==
  CASE m = "rearrangement" -> "Rearrangement_index.tsv"
    [] m = "proportion" -> "Splitting_parameter.tsv"
    [] m = "total_proportion" -> "Combining_parameter.tsv"

\* C5: whatever files main has processed, the rows of each of the three batch
\* tables are the union of the canonical ALGs of those files, a cell of an
\* ALG the file lacks is missing (not 0) and a cell of an ALG the file has
\* holds the value computed for that file; a saved table is the batch table.
C5_BatchUnion ==
  \A m \in Metrics :
     /\ Frame(m).columns = Processed
     /\ Range(Frame(m).index) = UNION {Algs(fs[f].rows) : f \in Range(Processed)}
     /\ Len(Frame(m).index) = Cardinality(Range(Frame(m).index))
     /\ \A a \in Range(Frame(m).index) : \A f \in Range(Processed) :
          IF a \in Algs(fs[f].rows)
          THEN /\ Frame(m).data[<<a, f>>] = process_tsv_file(f, fs[f].rows)[m].data[a]
               /\ Frame(m).data[<<a, f>>][2] > 0
          ELSE /\ Frame(m).data[<<a, f>>] = NaN
               /\ Frame(m).data[<<a, f>>] # Div(0, 1)
     /\ OutputOf(m) \in written => disk[OutputOf(m)] = Frame(m)

\* two files processed and saved, one lacking an ALG of the other
C5_Witness ==
  /\ pc = "exit" /\ exitStatus = 0 /\ Len(tsv_files) = 2
  /\ \E a \in Range(rearrangement_df.index) :
       /\ rearrangement_df.data[<<a, tsv_files[1]>>] = NaN
       /\ rearrangement_df.data[<<a, tsv_files[2]>>] # NaN

\* both invocations have saved their tables
TwoRuns == phase = "second" /\ pc = "exit" /\ exitStatus = 0

\* the table of a batch and the table of the same batch without file F:
\* the rows and the cells of the files kept
Independent(with, without, F) ==
  /\ Range(without.index) \subseteq Range(with.index)
  /\ Range(with.index) \ Range(without.index) \subseteq Algs(fs[F].rows)
  /\ \A G \in Range(without.columns) :
       /\ \A a \in Algs(fs[G].rows) :
            /\ a \in Range(without.index)
            /\ without.data[<<a, G>>] # NaN
            /\ with.data[<<a, G>>] = without.data[<<a, G>>]
       /\ \A a \in Range(with.index) :
            with.data[<<a, G>>] =
              IF a \in Range(without.index) THEN without.data[<<a, G>>] ELSE NaN

\* C6: of two runs whose batches differ by one file F, every other file G
\* has the same SCHR, CCHR and RALG for every ALG it contains; the run with F
\* only adds missing cells in rows of ALGs that occur in F alone.
C6_ColumnIndependence ==
  TwoRuns =>
    \A n \in OutputNames : \A F \in DOMAIN fs :
       /\ (F \in Range(prev.files) /\ Range(tsv_files) = Range(prev.files) \ {F})
            => Independent(prev.disk[n], disk[n], F)
       /\ (F \in Range(tsv_files) /\ Range(prev.files) = Range(tsv_files) \ {F})
            => Independent(disk[n], prev.disk[n], F)

\* a run on two files, then a run without one of them that loses a row
C6_Witness ==
  /\ TwoRuns
  /\ Len(prev.files) = 2 /\ Len(tsv_files) = 1
  /\ tsv_files[1] \in Range(prev.files)
  /\ Len(disk["Rearrangement_index.tsv"].index) >= 1
  /\ Len(prev.disk["Rearrangement_index.tsv"].index)
       > Len(disk["Rearrangement_index.tsv"].index)

\* C8: with zero or with two or more positional arguments the script prints
\* the usage line and exits with status 1; main is not called, no input file
\* is processed and no output file is written.
C8_UsageError ==
  argc # 1 =>
    /\ pc \in {"start", "exit"}
    /\ pc = "exit" => exitStatus = 1 /\ stdout = <<"citation", "usage">>
    /\ tsv_files = <<>> /\ i = 1
    /\ rearrangement_series = NoSeries
    /\ written = {}
    /\ DOMAIN disk = {}

\* the script has ended after a call with two arguments
C8_Witness == argc = 2 /\ pc = "exit" /\ exitStatus = 1

IsProcessing(line) == line = "processing"

\* C9: an output table is written only after every discovered input file has
\* been processed successfully; a run in which the directory cannot be
\* listed or a file fails ends with status 1 and no output table written.
C9_NoPartialOutput ==
  /\ written # {} =>
       /\ i = Len(tsv_files) + 1
       /\ \A f \in Range(tsv_files) : fs[f].readable /\ fs[f].rows # <<>>
       /\ Len(SelectSeq(stdout, IsProcessing)) = Len(tsv_files)
       /\ \A m \in Metrics : Frame(m).columns = tsv_files
  /\ exitStatus = 1 => written = {}
  /\ (pc = "exit" /\ \E f \in Range(tsv_files) : ~fs[f].readable \/ fs[f].rows = <<>>)
       => exitStatus = 1 /\ written = {}

\* the second file fails after the first was processed
C9_Witness ==
  /\ pc = "exit" /\ exitStatus = 1
  /\ Len(tsv_files) = 2 /\ i = 2
  /\ rearrangement_df.columns = <<tsv_files[1]>>
  /\ written = {}

\* C10: two runs over the same files in any two orders leave tables that
\* are equal as mappings from (ALG, file) to a value or a missing cell.
C10_OrderIndependence ==
  (TwoRuns /\ Range(tsv_files) = Range(prev.files)) =>
    \A n \in OutputNames :
       /\ Range(disk[n].index) = Range(prev.disk[n].index)
       /\ Range(disk[n].columns) = Range(prev.disk[n].columns)
       /\ disk[n].data = prev.disk[n].data

\* the same two files in both orders, the rows of the tables in both orders
C10_Witness ==
  /\ TwoRuns
  /\ Len(tsv_files) = 2
  /\ Range(tsv_files) = Range(prev.files)
  /\ tsv_files # prev.files
  /\ disk["Rearrangement_index.tsv"].index
       # prev.disk["Rearrangement_index.tsv"].index

=============================================================================
